---- MODULE Spec2Model ----
(***************************************************************************)
(* A model of the rq value hub: the Avro and JSON adapters                 *)
(* (src/src/value/avro.rs, src/src/value/json.rs) and the error taxonomy   *)
(* (src/src/error.rs).                                                     *)
(*                                                                         *)
(* Values are tuples <<tag, payload>>.  Integers are bit patterns written  *)
(* as big-endian sequences of 16-bit limbs, so that the 64-bit widths of   *)
(* the program are kept: i8/u8 are one number 0..255, i16/u16 one limb,    *)
(* i32/u32 two limbs, i64/u64 four limbs.  Floats are named by the text of *)
(* their bit pattern.  Results are <<"Ok", x>>, <<"Err", kind, why, v>>     *)
(* and, for an unwinding panic, <<"Panic">>.                               *)
(***************************************************************************)
EXTENDS Integers, Sequences, FiniteSets, TLC

VARIABLES
    cin,        \* conversion harness: the input, <<"val", v>> or <<"avro", a>>
    cout,       \* conversion harness: result of the first conversion
    cback,      \* conversion harness: result of decoding cout again
    cpc,        \* conversion harness: "start", "encoded", "decoded", "done"
    srcKind,    \* pipeline: "json" or "avro" Source
    input,      \* the items of the Source's byte stream, in order
    pos,        \* index of the next item the Source's reader will meet
    srcFailed,  \* StreamDeserializer.failed / avro_rs Reader.errored
    hist,       \* the results of the read() calls so far, with the position each met
    cur,        \* the Value the pipeline holds between read() and write()
    sinkKind,   \* "avro", "compact", "indented" or "readable" Sink
    sfmt,       \* JSON Sink: the formatter it owns (self.1)
    out,        \* JSON Sink: the chunks its writer (self.0) has received
    wbuf,       \* Avro Sink: records in the avro_rs Writer's block buffer
    wout,       \* Avro Sink: records the avro_rs Writer has written through
    sstate,     \* Sink: "open", "released" or "panicked"
    wlog,       \* the write() calls so far: the value, "Ok" or "Err", the formatter
                \* the call started from and the one its serializer ended with,
                \* and the records the Avro writer held when the call returned
    flushes,    \* Avro Sink: the flush() calls its release has made
    pstate,     \* the thread: "running", "unwinding", "panicked" or "aborted"
    fval,       \* formatter walk: the Value being serialized by the readable sink
    fes,        \* formatter walk: the calls the serializer makes for fval, in order
    fi,         \* formatter walk: index of the next call
    ff,         \* formatter walk: the ReadableFormatter's fields
    fw,         \* formatter walk: the chunks written so far
    fstatus     \* formatter walk: "idle", "walking" or "failed"

cvars == <<cin, cout, cback, cpc>>
pvars == <<srcKind, input, pos, srcFailed, hist, cur, sinkKind, sfmt, out, wbuf, wout,
           sstate, wlog, flushes, pstate>>
fvars == <<fval, fes, fi, ff, fw, fstatus>>
vars == <<cvars, pvars, fvars>>

-----------------------------------------------------------------------------
(* Bounds of the model.                                                    *)

\* nesting depth of the containers built around the sample leaves
MaxDepth == 2
\* number of items in a Source's input
MaxLen == 2
\* number of read() calls made on a Source
MaxReads == 4

-----------------------------------------------------------------------------
(* Results and errors (src/src/error.rs).                                  *)

Ok(x) == <<"Ok", x>>
IsOk(r) == r[1] = "Ok"
IsErr(r) == r[1] = "Err"
IsPanic(r) == r[1] = "Panic"
Unwrap(r) == r[2]

\* Error::Format { msg }: the message is built from `why` and the offending value
FormatError(why, v) == <<"Err", "Format", why, v>>
\* Error::Unimplemented { msg }
UnimplementedError(why, v) == <<"Err", "Unimplemented", why, v>>
\* todo!(): the thread panics and unwinds
Panic == <<"Panic">>

-----------------------------------------------------------------------------
(* Integer bit patterns.                                                   *)

Limb == 2^16
LimbMax == Limb - 1
SignBit == 2^15

I64_MAX == <<SignBit - 1, LimbMax, LimbMax, LimbMax>>
I64_MIN == <<SignBit, 0, 0, 0>>
U64_MAX == <<LimbMax, LimbMax, LimbMax, LimbMax>>

\* unsigned comparison of two patterns of the same width
RECURSIVE LimbsLE(_, _)
LimbsLE(p, q) ==
    IF p = <<>> THEN TRUE
    ELSE IF Head(p) < Head(q) THEN TRUE
    ELSE IF Head(p) > Head(q) THEN FALSE
    ELSE LimbsLE(Tail(p), Tail(q))

\* i32::from(i8): sign extension of an 8-bit pattern to 32 bits
I32FromI8(b) == IF b >= 128 THEN <<LimbMax, (LimbMax - 255) + b>> ELSE <<0, b>>
\* i32::from(i16)
I32FromI16(h) == IF h >= SignBit THEN <<LimbMax, h>> ELSE <<0, h>>
\* (mutant) the byte taken as signed: `v as i8 as i32`
I32FromU8_signed(b) == I32FromI8(b)
\* i32::from(u8), i32::from(u16): zero extension
I32FromU8(b) == <<0, b>>
I32FromU16(h) == <<0, h>>
\* i64::from(u32)
I64FromU32(w) == <<0, 0>> \o w
\* (mutant) `v as i64`: the bits are reinterpreted, nothing is checked
I64TryFromU64_wrap(p) == Ok(p)
\* i64::try_from(u64): Err when the value exceeds i64::MAX, else the same bits
I64TryFromU64(p) == IF LimbsLE(p, I64_MAX) THEN Ok(p) ELSE <<"Err", "TryFromInt", "", p>>

-----------------------------------------------------------------------------
(* value::Value constructors.                                              *)

Tag(x) == x[1]
Payload(x) == x[2]

VUnit == <<"Unit", <<>>>>
VBool(b) == <<"Bool", b>>
VI8(b) == <<"I8", b>>
VI16(h) == <<"I16", h>>
VI32(w) == <<"I32", w>>
VI64(p) == <<"I64", p>>
VU8(b) == <<"U8", b>>
VU16(h) == <<"U16", h>>
VU32(w) == <<"U32", w>>
VU64(p) == <<"U64", p>>
VF32(f) == <<"F32", f>>
VF64(f) == <<"F64", f>>
VChar(c) == <<"Char", c>>
VString(s) == <<"String", s>>
VBytes(bs) == <<"Bytes", bs>>
VSequence(vs) == <<"Sequence", vs>>
VMap(kvs) == <<"Map", kvs>>

\* Value::from_f32 / Value::from_f64 wrap the float in an OrderedFloat
from_f32(f) == VF32(f)
from_f64(f) == VF64(f)

(* avro_rs::types::Value constructors.                                     *)
ANull == <<"avro:Null", <<>>>>
ABoolean(b) == <<"avro:Boolean", b>>
AInt(w) == <<"avro:Int", w>>
ALong(p) == <<"avro:Long", p>>
AFloat(f) == <<"avro:Float", f>>
ADouble(f) == <<"avro:Double", f>>
ABytes(bs) == <<"avro:Bytes", bs>>
AString(s) == <<"avro:String", s>>
AFixed(n, bs) == <<"avro:Fixed", <<n, bs>>>>
AEnum(i, s) == <<"avro:Enum", <<i, s>>>>
AUnion(a) == <<"avro:Union", a>>
AArray(as) == <<"avro:Array", as>>
AMap(kvs) == <<"avro:Map", kvs>>
ARecord(kvs) == <<"avro:Record", kvs>>
ADate(w) == <<"avro:Date", w>>
ADecimal(bs) == <<"avro:Decimal", bs>>
ATimeMillis(w) == <<"avro:TimeMillis", w>>
ATimeMicros(p) == <<"avro:TimeMicros", p>>
ATimestampMillis(p) == <<"avro:TimestampMillis", p>>
ATimestampMicros(p) == <<"avro:TimestampMicros", p>>
ADuration(d) == <<"avro:Duration", d>>
AUuid(bs) == <<"avro:Uuid", bs>>

\* Duration::to_secs_f64 on the sample durations
to_secs_f64(d) ==
    CASE d = "PT1.5S" -> "1.5"
      [] d = "PT0S" -> "0.0"
      [] OTHER -> "0.0"

-----------------------------------------------------------------------------
(* Sequences of results.                                                   *)

\* (mutant) every element is converted and the last error is the one kept
Collect_last_error(rs) ==
    LET bad == {i \in 1..Len(rs) : ~IsOk(rs[i])}
    IN IF bad = {} THEN Ok([i \in 1..Len(rs) |-> Unwrap(rs[i])])
       ELSE rs[CHOOSE i \in bad : \A j \in bad : j <= i]
\* collect::<Result<Vec<_>>>(): the first Err (or panic) in order, else the Vec
RECURSIVE Collect(_)
Collect(rs) ==
    IF rs = <<>> THEN Ok(<<>>)
    ELSE IF ~IsOk(Head(rs)) THEN Head(rs)
    ELSE LET rest == Collect(Tail(rs))
         IN IF IsOk(rest) THEN Ok(<<Unwrap(Head(rs))>> \o Unwrap(rest)) ELSE rest

\* the results of a panicking map: a panic of any element unwinds the whole call
AnyPanic(rs) == \E i \in 1..Len(rs) : IsPanic(rs[i])

-----------------------------------------------------------------------------
(* Avro decoding: value_from_avro (avro.rs:46-80).  The result is a Value  *)
(* or Panic.                                                               *)

\* avro.rs:60-69: the (key, value) pairs of an Avro Map or Record become a Map
\* (mutant) a Long decoded into the 32-bit variant, keeping the low half
LongFromAvro_narrow(v) == VI32(<<v[3], v[4]>>)
\* avro.rs:53: From::Long(v) => To::I64(v)
LongFromAvro(v) == VI64(v)
\* avro.rs:52: From::Int(v) => To::I32(v)
IntFromAvro(v) == VI32(v)
\* (mutant) the union survives decoding as a one-element wrapper
UnionFromAvro_keep(inner) == VSequence(<<inner>>)
\* avro.rs:58: From::Union(boxed) => value_from_avro(*boxed); `inner` is the
\* decoding of the boxed value
UnionFromAvro(inner) == inner

RECURSIVE value_from_avro(_)
\* (mutant) the pairs collected back to front
FieldsFromAvro_reversed(kvs) ==
    LET n == Len(kvs)
        vs == [i \in 1..n |-> value_from_avro(kvs[i][2])]
    IN IF AnyPanic(vs) THEN Panic
       ELSE VMap([i \in 1..n |-> <<VString(kvs[n + 1 - i][1]), vs[n + 1 - i]>>])
FieldsFromAvro(kvs) ==
    LET vs == [i \in 1..Len(kvs) |-> value_from_avro(kvs[i][2])]
    IN IF AnyPanic(vs) THEN Panic
       ELSE VMap([i \in 1..Len(kvs) |-> <<VString(kvs[i][1]), vs[i]>>])

value_from_avro(value) ==
    LET t == Tag(value)
        v == Payload(value)
    IN CASE t = "avro:Null" -> VUnit
         [] t = "avro:Boolean" -> VBool(v)
         [] t = "avro:Int" -> IntFromAvro(v)
         [] t = "avro:Long" -> LongFromAvro(v)
         [] t = "avro:Float" -> from_f32(v)
         [] t = "avro:Double" -> from_f64(v)
         [] t = "avro:Bytes" -> VBytes(v)
         [] t = "avro:Fixed" -> VBytes(v[2])
         [] t = "avro:String" -> VString(v)
         [] t = "avro:Enum" -> VString(v[2])
         [] t = "avro:Union" -> UnionFromAvro(value_from_avro(v))
         [] t = "avro:Array" ->
              LET vs == [i \in 1..Len(v) |-> value_from_avro(v[i])]
              IN IF AnyPanic(vs) THEN Panic ELSE VSequence(vs)
         [] t = "avro:Map" -> FieldsFromAvro(v)
         [] t = "avro:Record" -> FieldsFromAvro(v)
         [] t = "avro:Date" -> Panic
         [] t = "avro:TimeMillis" -> VI32(v)
         [] t = "avro:TimeMicros" -> VI64(v)
         [] t = "avro:TimestampMillis" -> VI64(v)
         [] t = "avro:TimestampMicros" -> VI64(v)
         [] t = "avro:Duration" -> from_f64(to_secs_f64(v))
         [] t = "avro:Decimal" -> Panic
         [] t = "avro:Uuid" -> VBytes(v)

-----------------------------------------------------------------------------
(* Avro encoding: value_to_string (avro.rs:144-152) and value_to_avro      *)
(* (avro.rs:93-142).                                                       *)

\* format!("{}", c) of a char: the one-character string
CharToString(c) == c

value_to_string(value) ==
    CASE Tag(value) = "Char" -> Ok(CharToString(Payload(value)))
      [] Tag(value) = "String" -> Ok(Payload(value))
      [] OTHER -> FormatError("Avro can only output string keys", value)

\* avro.rs:135-138: one (key, value) pair of a Map, both halves already converted
MapPairResult(k, v) ==
    CASE IsOk(k) /\ IsOk(v) -> Ok(<<Unwrap(k), Unwrap(v)>>)
      [] IsOk(k) /\ ~IsOk(v) -> v
      [] ~IsOk(k) /\ IsOk(v) -> k
      [] ~IsOk(k) /\ ~IsOk(v) -> v

\* avro.rs:108-119
U64ToAvro(p) ==
    LET r == I64TryFromU64(p)
    IN IF IsOk(r) THEN Ok(ALong(Unwrap(r)))
       ELSE FormatError("Avro output does not support unsigned 64 bit integer", VU64(p))

RECURSIVE value_to_avro(_)
value_to_avro(value) ==
    LET t == Tag(value)
        v == Payload(value)
    IN CASE t = "Unit" -> Ok(ANull)
         [] t = "Bool" -> Ok(ABoolean(v))
         [] t = "I8" -> Ok(AInt(I32FromI8(v)))
         [] t = "I16" -> Ok(AInt(I32FromI16(v)))
         [] t = "I32" -> Ok(AInt(v))
         [] t = "I64" -> Ok(ALong(v))
         [] t = "U8" -> Ok(AInt(I32FromU8(v)))
         [] t = "U16" -> Ok(AInt(I32FromU16(v)))
         [] t = "U32" -> Ok(ALong(I64FromU32(v)))
         [] t = "U64" -> U64ToAvro(v)
         [] t = "F32" -> Ok(AFloat(v))
         [] t = "F64" -> Ok(ADouble(v))
         [] t = "Char" -> Ok(AString(CharToString(v)))
         [] t = "String" -> Ok(AString(v))
         [] t = "Bytes" -> Ok(ABytes(v))
         [] t = "Sequence" ->
              LET r == Collect([i \in 1..Len(v) |-> value_to_avro(v[i])])
              IN IF IsOk(r) THEN Ok(AArray(Unwrap(r))) ELSE r
         [] t = "Map" ->
              LET r == Collect([i \in 1..Len(v) |->
                         MapPairResult(value_to_string(v[i][1]), value_to_avro(v[i][2]))])
              IN IF IsOk(r) THEN Ok(ARecord(Unwrap(r))) ELSE r

-----------------------------------------------------------------------------
(* Numbers denoted by bit patterns: <<negative, magnitude>>, the magnitude *)
(* an unsigned pattern of the same width.                                  *)

RECURSIVE Inc(_)
Inc(p) ==
    IF p = <<>> THEN <<>>
    ELSE LET n == Len(p)
         IN IF p[n] < LimbMax THEN SubSeq(p, 1, n - 1) \o <<p[n] + 1>>
            ELSE Inc(SubSeq(p, 1, n - 1)) \o <<0>>

Negate(p) == Inc([i \in 1..Len(p) |-> LimbMax - p[i]])
UnsignedNum(p) == <<FALSE, p>>
SignedNum(p) == IF p[1] >= SignBit THEN <<TRUE, Negate(p)>> ELSE <<FALSE, p>>
\* a u64 pattern denotes a number above i64::MAX = 2^63 - 1 iff its top bit is set
ExceedsI64Max(p) == p[1] >= SignBit

-----------------------------------------------------------------------------
(* JSON encoding.  serde_json's Serializer walks the Value and calls the   *)
(* Formatter; a call is <<callback, argument>>.  What a formatter writes   *)
(* is a sequence of chunks <<style, kind, text>>, one per write!().        *)

\* the number a signed / unsigned bit pattern of each width denotes, as
\* <<negative, four-limb magnitude>>: what itoa prints in decimal
IntNum(t, v) ==
    CASE t = "I8" -> IF v >= 128 THEN <<TRUE, <<0, 0, 0, 256 - v>>>> ELSE <<FALSE, <<0, 0, 0, v>>>>
      [] t = "I16" -> IF v >= SignBit THEN <<TRUE, <<0, 0, 0, Limb - v>>>> ELSE <<FALSE, <<0, 0, 0, v>>>>
      [] t = "I32" -> IF v[1] >= SignBit
                      THEN <<TRUE, <<0, 0>> \o Inc([i \in 1..2 |-> LimbMax - v[i]])>>
                      ELSE <<FALSE, <<0, 0>> \o v>>
      [] t = "I64" -> IF v[1] >= SignBit
                      THEN <<TRUE, Inc([i \in 1..4 |-> LimbMax - v[i]])>>
                      ELSE <<FALSE, v>>
      [] t \in {"U8", "U16"} -> <<FALSE, <<0, 0, 0, v>>>>
      [] t = "U32" -> <<FALSE, <<0, 0>> \o v>>
      [] t = "U64" -> <<FALSE, v>>

IntTags == {"I8", "I16", "I32", "I64", "U8", "U16", "U32", "U64"}
IntCallback(t) ==
    CASE t = "I8" -> "write_i8" [] t = "I16" -> "write_i16"
      [] t = "I32" -> "write_i32" [] t = "I64" -> "write_i64"
      [] t = "U8" -> "write_u8" [] t = "U16" -> "write_u16"
      [] t = "U32" -> "write_u32" [] t = "U64" -> "write_u64"

\* f32/f64::is_finite on the sample floats
IsFiniteFloat(f) == f \notin {"NaN", "inf", "-inf"}

\* format_escaped_str_contents: the fragments and escapes of the sample strings
StrPieces(str) ==
    CASE str = "" -> <<>>
      [] str = "q\"" -> <<<<"write_string_fragment", "q">>, <<"write_char_escape", "Quote">>>>
      [] str = "\t" -> <<<<"write_char_escape", "Tab">>>>
      [] OTHER -> <<<<"write_string_fragment", str>>>>

SerStr(str) == <<<<"begin_string", "">>>> \o StrPieces(str) \o <<<<"end_string", "">>>>

SerError(why) == <<"error", why>>
HasError(es) == es # <<>> /\ es[Len(es)][1] = "error"

\* the calls of consecutive steps; nothing follows a step that failed
RECURSIVE CatAll(_)
CatAll(parts) ==
    IF parts = <<>> THEN <<>>
    ELSE IF HasError(Head(parts)) THEN Head(parts)
    ELSE Head(parts) \o CatAll(Tail(parts))

\* MapKeySerializer: strings and chars as strings, integers quoted, nothing else
SerKey(k) ==
    CASE Tag(k) = "String" -> SerStr(Payload(k))
      [] Tag(k) = "Char" -> SerStr(CharToString(Payload(k)))
      [] Tag(k) \in IntTags ->
           <<<<"begin_string", "">>, <<IntCallback(Tag(k)), IntNum(Tag(k), Payload(k))>>,
             <<"end_string", "">>>>
      [] OTHER -> <<SerError("key must be a string")>>

\* impl Serialize for Value, driving serde_json::Serializer
RECURSIVE SerEvents(_)
SerEvents(value) ==
    LET t == Tag(value)
        v == Payload(value)
    IN CASE t = "Unit" -> <<<<"write_null", "">>>>
         [] t = "Bool" -> <<<<"write_bool", v>>>>
         [] t \in IntTags -> <<<<IntCallback(t), IntNum(t, v)>>>>
         [] t = "F32" -> IF IsFiniteFloat(v) THEN <<<<"write_f32", v>>>> ELSE <<<<"write_null", "">>>>
         [] t = "F64" -> IF IsFiniteFloat(v) THEN <<<<"write_f64", v>>>> ELSE <<<<"write_null", "">>>>
         [] t = "Char" -> SerStr(CharToString(v))
         [] t = "String" -> SerStr(v)
         [] t = "Bytes" ->
              IF v = <<>> THEN <<<<"begin_array", "">>, <<"end_array", "">>>>
              ELSE CatAll(<<<<<<"begin_array", "">>>>>>
                          \o [i \in 1..Len(v) |->
                                <<<<"begin_array_value", i = 1>>,
                                  <<"write_u8", IntNum("U8", v[i])>>,
                                  <<"end_array_value", "">>>>]
                          \o <<<<<<"end_array", "">>>>>>)
         [] t = "Sequence" ->
              IF v = <<>> THEN <<<<"begin_array", "">>, <<"end_array", "">>>>
              ELSE CatAll(<<<<<<"begin_array", "">>>>>>
                          \o [i \in 1..Len(v) |->
                                CatAll(<<<<<<"begin_array_value", i = 1>>>>,
                                         SerEvents(v[i]),
                                         <<<<"end_array_value", "">>>>>>)]
                          \o <<<<<<"end_array", "">>>>>>)
         [] t = "Map" ->
              IF v = <<>> THEN <<<<"begin_object", "">>, <<"end_object", "">>>>
              ELSE CatAll(<<<<<<"begin_object", "">>>>>>
                          \o [i \in 1..Len(v) |->
                                CatAll(<<<<<<"begin_object_key", i = 1>>>>,
                                         SerKey(v[i][1]),
                                         <<<<"end_object_key", "">>, <<"begin_object_value", "">>>>,
                                         SerEvents(v[i][2]),
                                         <<<<"end_object_value", "">>>>>>)]
                          \o <<<<<<"end_object", "">>>>>>)

\* chunks
Chunk(style, kind, text) == <<style, kind, text>>
NL == Chunk("plain", "ws", "\n")
IndentUnit == Chunk("plain", "ws", "  ")

\* json.rs:526-535: indent(wr, n)
indent(n) == [i \in 1..n |-> IndentUnit]

\* dtoa::Buffer::format on the sample f64 (a float is named by its shortest
\* literal): plain decimal notation for decimal exponents from -6 to 21
DtoaFormat(f) ==
    CASE f = "1e16" -> "10000000000000000.0"
      [] f = "1e-6" -> "0.000001"
      [] OTHER -> f
\* ryu::Buffer::format on the sample f64: plain decimal notation for decimal
\* exponents from -5 to 16, else scientific notation
RyuFormat(f) ==
    CASE f = "1e16" -> "1e16"
      [] f = "1e-6" -> "1e-6"
      [] OTHER -> f

\* json.rs:360-384: the text of a character escape
EscapeText(e) ==
    CASE e = "Quote" -> "\\\""
      [] e = "ReverseSolidus" -> "\\\\"
      [] e = "Solidus" -> "\\/"
      [] e = "Backspace" -> "\\b"
      [] e = "FormFeed" -> "\\f"
      [] e = "LineFeed" -> "\\n"
      [] e = "CarriageReturn" -> "\\r"
      [] e = "Tab" -> "\\t"

\* json.rs:119-152: ReadableFormatter::new(); CompactFormatter; PrettyFormatter::new()
NewFormatter(kind) ==
    [kind |-> kind, current_indent |-> 0, is_in_object_key |-> FALSE, has_value |-> FALSE]

Step(f, w) == [f |-> f, w |-> w]

NumberCallbacks ==
    {"write_i8", "write_i16", "write_i32", "write_i64",
     "write_u8", "write_u16", "write_u32", "write_u64"}

\* (mutant) the flag of the container entered is left as the sibling set it
EnterContainer_keep_flag(f) == [f EXCEPT !.current_indent = @ + 1]
\* json.rs:396-397, 452-453: begin_array / begin_object
EnterContainer(f) == [f EXCEPT !.current_indent = @ + 1, !.has_value = FALSE]

\* (mutant) the indent is not taken back when the container is left
LeaveContainer_no_decrement(f) == f
\* json.rs:409, 465: end_array / end_object
LeaveContainer(f) == [f EXCEPT !.current_indent = @ - 1]

\* json.rs:411-414, 467-470: the newline and indent before a closing bracket
BeforeClose(f) == IF f.has_value THEN <<NL>> \o indent(f.current_indent) ELSE <<>>

\* json.rs:441, 521: end_array_value / end_object_value
ChildDone(f) == [f EXCEPT !.has_value = TRUE]

\* json.rs:481: begin_object_key
EnterKey(f) == [f EXCEPT !.is_in_object_key = TRUE]
\* (mutant) the key flag is not cleared at the end of the key
LeaveKey_stuck(f) == f
\* json.rs:500: end_object_key
LeaveKey(f) == [f EXCEPT !.is_in_object_key = FALSE]

\* (mutant) a comma before every element, the first included
ArrayComma_always(first) == <<Chunk("array_comma_style", "punct", ",")>>
\* json.rs:426-428: begin_array_value
ArrayComma(first) ==
    IF ~first THEN <<Chunk("array_comma_style", "punct", ",")>> ELSE <<>>

\* json.rs:301-305, 317-321, 333-337, 354-358: the palette of a string part
StringStyle(f, part) ==
    IF f.is_in_object_key
    THEN CASE part = "quote" -> "object_key_quote_style"
           [] part = "frag" -> "object_key_char_style"
           [] part = "esc" -> "object_key_escape_style"
    ELSE CASE part = "quote" -> "string_quote_style"
           [] part = "frag" -> "string_char_style"
           [] part = "esc" -> "string_escape_style"

\* json.rs:190-524: impl serde_json::ser::Formatter for ReadableFormatter
ReadableCall(f, ev) ==
    LET cb == ev[1]
        arg == ev[2]
    IN CASE cb = "write_null" -> Step(f, <<Chunk("null_style", "lit", "null")>>)
         [] cb = "write_bool" ->
              Step(f, <<IF arg THEN Chunk("true_style", "lit", "true")
                        ELSE Chunk("false_style", "lit", "false")>>)
         [] cb \in NumberCallbacks -> Step(f, <<Chunk("number_style", "num", arg)>>)
         [] cb \in {"write_f32", "write_f64"} ->
              Step(f, <<Chunk("number_style", "float", DtoaFormat(arg))>>)
         [] cb \in {"begin_string", "end_string"} ->
              Step(f, <<Chunk(StringStyle(f, "quote"), "quote", "\"")>>)
         [] cb = "write_string_fragment" ->
              Step(f, <<Chunk(StringStyle(f, "frag"), "frag", arg)>>)
         [] cb = "write_char_escape" ->
              Step(f, <<Chunk(StringStyle(f, "esc"), "esc", EscapeText(arg))>>)
         [] cb = "begin_array" ->
              Step(EnterContainer(f), <<Chunk("array_bracket_style", "punct", "[")>>)
         [] cb = "end_array" ->
              LET g == LeaveContainer(f)
              IN Step(g, BeforeClose(g) \o <<Chunk("array_bracket_style", "punct", "]")>>)
         [] cb = "begin_array_value" ->
              Step(f, ArrayComma(arg) \o <<NL>> \o indent(f.current_indent))
         [] cb = "end_array_value" -> Step(ChildDone(f), <<>>)
         [] cb = "begin_object" ->
              Step(EnterContainer(f), <<Chunk("object_brace_style", "punct", "{")>>)
         [] cb = "end_object" ->
              LET g == LeaveContainer(f)
              IN Step(g, BeforeClose(g) \o <<Chunk("object_brace_style", "punct", "}")>>)
         [] cb = "begin_object_key" ->
              LET g == EnterKey(f)
              IN Step(g, (IF ~arg THEN <<Chunk("object_comma_style", "punct", ",")>> ELSE <<>>)
                         \o <<NL>> \o indent(g.current_indent))
         [] cb = "end_object_key" -> Step(LeaveKey(f), <<>>)
         [] cb = "begin_object_value" ->
              Step(f, <<Chunk("object_colon_style", "punct", ": ")>>)
         [] cb = "end_object_value" -> Step(ChildDone(f), <<>>)

Plain(kind, text) == Chunk("plain", kind, text)

\* serde_json::ser::CompactFormatter: the Formatter trait's default methods
CompactCall(f, ev) ==
    LET cb == ev[1]
        arg == ev[2]
    IN CASE cb = "write_null" -> Step(f, <<Plain("lit", "null")>>)
         [] cb = "write_bool" -> Step(f, <<Plain("lit", IF arg THEN "true" ELSE "false")>>)
         [] cb \in NumberCallbacks -> Step(f, <<Plain("num", arg)>>)
         [] cb \in {"write_f32", "write_f64"} -> Step(f, <<Plain("float", RyuFormat(arg))>>)
         [] cb \in {"begin_string", "end_string"} -> Step(f, <<Plain("quote", "\"")>>)
         [] cb = "write_string_fragment" -> Step(f, <<Plain("frag", arg)>>)
         [] cb = "write_char_escape" -> Step(f, <<Plain("esc", EscapeText(arg))>>)
         [] cb = "begin_array" -> Step(f, <<Plain("punct", "[")>>)
         [] cb = "end_array" -> Step(f, <<Plain("punct", "]")>>)
         [] cb \in {"begin_array_value", "begin_object_key"} ->
              Step(f, IF ~arg THEN <<Plain("punct", ",")>> ELSE <<>>)
         [] cb = "begin_object" -> Step(f, <<Plain("punct", "{")>>)
         [] cb = "end_object" -> Step(f, <<Plain("punct", "}")>>)
         [] cb = "begin_object_value" -> Step(f, <<Plain("punct", ":")>>)
         [] cb \in {"end_array_value", "end_object_key", "end_object_value"} -> Step(f, <<>>)

\* serde_json::ser::PrettyFormatter with the default two-space indent
PrettyCall(f, ev) ==
    LET cb == ev[1]
        arg == ev[2]
    IN CASE cb \in {"begin_array", "begin_object"} ->
              Step([f EXCEPT !.current_indent = @ + 1, !.has_value = FALSE],
                   <<Plain("punct", IF cb = "begin_array" THEN "[" ELSE "{")>>)
         [] cb \in {"end_array", "end_object"} ->
              LET g == [f EXCEPT !.current_indent = @ - 1]
              IN Step(g, (IF g.has_value THEN <<NL>> \o indent(g.current_indent) ELSE <<>>)
                         \o <<Plain("punct", IF cb = "end_array" THEN "]" ELSE "}")>>)
         [] cb \in {"begin_array_value", "begin_object_key"} ->
              Step(f, (IF ~arg THEN <<Plain("punct", ",")>> ELSE <<>>)
                      \o <<NL>> \o indent(f.current_indent))
         [] cb \in {"end_array_value", "end_object_value"} ->
              Step([f EXCEPT !.has_value = TRUE], <<>>)
         [] cb = "begin_object_value" -> Step(f, <<Plain("punct", ": ")>>)
         [] OTHER -> CompactCall(f, ev)

FormatterCall(f, ev) ==
    CASE f.kind = "readable" -> ReadableCall(f, ev)
      [] f.kind = "compact" -> CompactCall(f, ev)
      [] f.kind = "indented" -> PrettyCall(f, ev)

\* json.rs:409, 465: `current_indent -= 1` on a usize that is 0 overflows
IndentUnderflow(f) == f.current_indent < 0

\* the serializer's calls from the i-th on, applied in order; st holds the
\* formatter reached and everything written so far.  The walk ends at a
\* serializer error (and at an arithmetic overflow of the indent).
RECURSIVE RunFrom(_, _, _)
RunFrom(st, es, i) ==
    IF i > Len(es) \/ es[i][1] = "error" \/ IndentUnderflow(st.f) THEN st
    ELSE LET one == FormatterCall(st.f, es[i])
         IN RunFrom(Step(one.f, st.w \o one.w), es, i + 1)

RunFormatter(f, es) == RunFrom(Step(f, <<>>), es, 1)

-----------------------------------------------------------------------------
(* Sample values.                                                          *)

UuidBytes == [i \in 1..16 |-> i]

ValLeaves ==
    {VUnit, VBool(TRUE), VBool(FALSE),
     VI8(5), VI8(128), VI8(255), VI16(300), VI16(SignBit),
     VI32(<<0, 1>>), VI32(<<SignBit, 0>>), VI32(<<LimbMax, LimbMax>>),
     VI64(<<0, 0, 0, 7>>), VI64(<<0, 0, 0, 42>>), VI64(I64_MAX), VI64(I64_MIN), VI64(U64_MAX),
     VU8(200), VU16(LimbMax), VU32(<<0, 9>>), VU32(<<LimbMax, LimbMax>>),
     VU64(<<0, 0, 0, 0>>), VU64(<<0, 0, 0, 42>>), VU64(I64_MAX), VU64(I64_MIN),
     VU64(<<SignBit, 0, 0, 1>>), VU64(U64_MAX),
     VF32("1.5"), VF64("2.5"), VF64("NaN"),
     VChar("c"), VString("a"), VString("a,b"), VString(""),
     VBytes(<<>>), VBytes(<<1, 255>>)}

\* the leaves that containers are built around
NestVals == {VUnit, VBool(TRUE), VI64(<<0, 0, 0, 7>>), VU64(U64_MAX), VString("a")}
PadVals == {VBool(TRUE), VU64(U64_MAX)}
KeyVals == {VString("a"), VChar("c"), VI32(<<0, 1>>), VUnit}

ValWrap(S) ==
    {VSequence(<<>>), VMap(<<>>)}
    \cup {VSequence(<<x>>) : x \in S}
    \cup {VSequence(<<l, x>>) : l \in PadVals, x \in S}
    \cup {VSequence(<<x, l>>) : l \in PadVals, x \in S}
    \cup {VMap(<<<<k, x>>>>) : k \in KeyVals, x \in S}
    \cup {VMap(<<<<VString("a"), l>>, <<k, x>>>>) :
              l \in PadVals, k \in {VString("a"), VI32(<<0, 1>>)}, x \in S}

RECURSIVE ValsAt(_)
ValsAt(d) == IF d = 0 THEN NestVals ELSE ValsAt(d - 1) \cup ValWrap(ValsAt(d - 1))

\* every 8-bit integer, and the 16- and 32-bit integers around the limits
IntEdgeVals ==
    {VI8(b) : b \in 0..255} \cup {VU8(b) : b \in 0..255}
    \cup {VI16(h) : h \in {0, 1, SignBit - 1, SignBit, LimbMax}}
    \cup {VU16(h) : h \in {0, 1, SignBit - 1, SignBit, LimbMax}}
    \cup {VI32(w) : w \in {<<0, 0>>, <<SignBit - 1, LimbMax>>, <<SignBit, 0>>, <<LimbMax, LimbMax>>}}
    \cup {VU32(w) : w \in {<<0, 0>>, <<SignBit - 1, LimbMax>>, <<SignBit, 0>>, <<LimbMax, LimbMax>>}}

\* sequences with more than one element that does not encode
FailingSeqVals ==
    {VSequence(<<VU64(U64_MAX), VMap(<<<<VUnit, VUnit>>>>)>>),
     VSequence(<<VMap(<<<<VUnit, VUnit>>>>), VU64(U64_MAX)>>),
     VSequence(<<VBool(TRUE), VU64(I64_MIN), VString("a"), VU64(U64_MAX)>>)}

ConvVals ==
    ValLeaves \cup {VSequence(<<x>>) : x \in ValLeaves} \cup ValsAt(MaxDepth)
    \cup IntEdgeVals \cup FailingSeqVals

AvroLeaves ==
    {ANull, ABoolean(TRUE), ABoolean(FALSE),
     AInt(<<0, 1>>), AInt(<<LimbMax, LimbMax>>),
     ALong(<<0, 0, 0, 7>>), ALong(I64_MAX), ALong(U64_MAX),
     AFloat("1.5"), ADouble("2.5"), ADouble("NaN"),
     ABytes(<<1, 255>>), AFixed(2, <<1, 255>>),
     AString("a"), AEnum(1, "b"),
     ADate(<<0, 1>>), ADecimal(<<1>>),
     ATimeMillis(<<0, 1>>), ATimeMicros(<<0, 0, 0, 1>>),
     ATimestampMillis(<<0, 0, 0, 2>>), ATimestampMicros(<<0, 0, 0, 3>>),
     ADuration("PT1.5S"), AUuid(UuidBytes)}

NestAvros == {ANull, ALong(<<0, 0, 0, 7>>), AString("a"), ADate(<<0, 1>>), ADecimal(<<1>>)}

AvroWrap(S) ==
    {AArray(<<>>), ARecord(<<>>)}
    \cup {AUnion(x) : x \in S}
    \cup {AArray(<<x>>) : x \in S}
    \cup {AArray(<<ALong(<<0, 0, 0, 7>>), x>>) : x \in S}
    \cup {AArray(<<x, ALong(<<0, 0, 0, 7>>)>>) : x \in S}
    \cup {ARecord(<<<<"f", x>>>>) : x \in S}
    \cup {ARecord(<<<<"f", ANull>>, <<"g", x>>>>) : x \in S}
    \cup {AMap(<<<<"k", x>>>>) : x \in S}

RECURSIVE AvrosAt(_)
AvrosAt(d) == IF d = 0 THEN NestAvros ELSE AvrosAt(d - 1) \cup AvroWrap(AvrosAt(d - 1))

\* records whose fields are not declared in alphabetical order
OrderedRecords ==
    {ARecord(<<<<"g", ALong(<<0, 0, 0, 7>>)>>, <<"f", ANull>>>>),
     ARecord(<<<<"z", AString("a")>>, <<"g", AUnion(ANull)>>, <<"f", ABoolean(TRUE)>>>>)}

ConvAvros ==
    AvroLeaves \cup {AUnion(x) : x \in AvroLeaves} \cup AvrosAt(MaxDepth) \cup OrderedRecords

-----------------------------------------------------------------------------
(* The conversion harness: value_to_avro and value_from_avro applied to    *)
(* the sample values.                                                      *)

NoResult == <<"None">>

ConvIdle ==
    /\ cin = NoResult
    /\ cout = NoResult
    /\ cback = NoResult
    /\ cpc = "idle"

\* value_to_avro(value)
Encode ==
    /\ cpc = "start"
    /\ cin[1] = "val"
    /\ cout' = value_to_avro(cin[2])
    /\ cpc' = "encoded"
    /\ UNCHANGED <<cin, cback, pvars, fvars>>

\* value_from_avro applied to the Avro value that Encode produced
DecodeBack ==
    /\ cpc = "encoded"
    /\ IsOk(cout)
    /\ cback' = value_from_avro(Unwrap(cout))
    /\ cpc' = "done"
    /\ UNCHANGED <<cin, cout, pvars, fvars>>

\* value_from_avro(value)
Decode ==
    /\ cpc = "start"
    /\ cin[1] = "avro"
    /\ cout' = value_from_avro(cin[2])
    /\ cpc' = "decoded"
    /\ UNCHANGED <<cin, cback, pvars, fvars>>

-----------------------------------------------------------------------------
(* The formatter walk: the readable sink serializing one Value, one call   *)
(* of the serializer to the ReadableFormatter per step.                    *)

FmtLeaves ==
    {VUnit, VBool(TRUE), VBool(FALSE), VI8(255), VU64(U64_MAX),
     VF32("1.5"), VF64("1e16"), VF64("1e-6"), VF64("NaN"),
     VChar("c"), VString("a,b"), VString("q\""), VString(""), VBytes(<<1, 255>>)}

FmtNest == {VBool(TRUE), VString("a,b")}

FmtWrap(S) ==
    {VSequence(<<>>), VMap(<<>>), VMap(<<<<VUnit, VBool(TRUE)>>>>)}
    \cup {VSequence(<<x>>) : x \in S}
    \cup {VSequence(<<VBool(TRUE), x>>) : x \in S}
    \cup {VSequence(<<x, VSequence(<<>>)>>) : x \in S}
    \cup {VMap(<<<<VString("k"), x>>>>) : x \in S}
    \cup {VMap(<<<<VString("q\""), x>>, <<VChar("c"), VMap(<<>>)>>>>) : x \in S}
    \cup {VMap(<<<<VI32(<<0, 1>>), x>>, <<VString("k"), VString("a,b")>>>>) : x \in S}

RECURSIVE FmtValsAt(_)
FmtValsAt(d) == IF d = 0 THEN FmtNest ELSE FmtValsAt(d - 1) \cup FmtWrap(FmtValsAt(d - 1))

FmtVals == FmtLeaves \cup FmtValsAt(MaxDepth)

FmtIdle ==
    /\ fval = NoResult
    /\ fes = <<>>
    /\ fi = 1
    /\ ff = NewFormatter("none")
    /\ fw = <<>>
    /\ fstatus = "idle"

\* the serializer is about to make one of the calls cbs
NextCall(cbs) ==
    /\ fstatus = "walking"
    /\ fi <= Len(fes)
    /\ fes[fi][1] \in cbs

\* write_null, write_bool, write_i8 .. write_u64, write_f32, write_f64
WriteScalar ==
    /\ NextCall({"write_null", "write_bool", "write_f32", "write_f64"} \cup NumberCallbacks)
    /\ ff' = FormatterCall(ff, fes[fi]).f
    /\ fw' = fw \o FormatterCall(ff, fes[fi]).w
    /\ fi' = fi + 1
    /\ UNCHANGED <<fval, fes, fstatus, cvars, pvars>>

\* begin_string, write_string_fragment, write_char_escape, end_string
WriteStringPart ==
    /\ NextCall({"begin_string", "write_string_fragment", "write_char_escape", "end_string"})
    /\ ff' = FormatterCall(ff, fes[fi]).f
    /\ fw' = fw \o FormatterCall(ff, fes[fi]).w
    /\ fi' = fi + 1
    /\ UNCHANGED <<fval, fes, fstatus, cvars, pvars>>

BeginArray ==
    /\ NextCall({"begin_array"})
    /\ ff' = FormatterCall(ff, fes[fi]).f
    /\ fw' = fw \o FormatterCall(ff, fes[fi]).w
    /\ fi' = fi + 1
    /\ UNCHANGED <<fval, fes, fstatus, cvars, pvars>>

EndArray ==
    /\ NextCall({"end_array"})
    /\ ff' = FormatterCall(ff, fes[fi]).f
    /\ fw' = fw \o FormatterCall(ff, fes[fi]).w
    /\ fi' = fi + 1
    /\ UNCHANGED <<fval, fes, fstatus, cvars, pvars>>

BeginArrayValue ==
    /\ NextCall({"begin_array_value"})
    /\ ff' = FormatterCall(ff, fes[fi]).f
    /\ fw' = fw \o FormatterCall(ff, fes[fi]).w
    /\ fi' = fi + 1
    /\ UNCHANGED <<fval, fes, fstatus, cvars, pvars>>

EndArrayValue ==
    /\ NextCall({"end_array_value"})
    /\ ff' = FormatterCall(ff, fes[fi]).f
    /\ fw' = fw \o FormatterCall(ff, fes[fi]).w
    /\ fi' = fi + 1
    /\ UNCHANGED <<fval, fes, fstatus, cvars, pvars>>

BeginObject ==
    /\ NextCall({"begin_object"})
    /\ ff' = FormatterCall(ff, fes[fi]).f
    /\ fw' = fw \o FormatterCall(ff, fes[fi]).w
    /\ fi' = fi + 1
    /\ UNCHANGED <<fval, fes, fstatus, cvars, pvars>>

EndObject ==
    /\ NextCall({"end_object"})
    /\ ff' = FormatterCall(ff, fes[fi]).f
    /\ fw' = fw \o FormatterCall(ff, fes[fi]).w
    /\ fi' = fi + 1
    /\ UNCHANGED <<fval, fes, fstatus, cvars, pvars>>

BeginObjectKey ==
    /\ NextCall({"begin_object_key"})
    /\ ff' = FormatterCall(ff, fes[fi]).f
    /\ fw' = fw \o FormatterCall(ff, fes[fi]).w
    /\ fi' = fi + 1
    /\ UNCHANGED <<fval, fes, fstatus, cvars, pvars>>

EndObjectKey ==
    /\ NextCall({"end_object_key"})
    /\ ff' = FormatterCall(ff, fes[fi]).f
    /\ fw' = fw \o FormatterCall(ff, fes[fi]).w
    /\ fi' = fi + 1
    /\ UNCHANGED <<fval, fes, fstatus, cvars, pvars>>

BeginObjectValue ==
    /\ NextCall({"begin_object_value"})
    /\ ff' = FormatterCall(ff, fes[fi]).f
    /\ fw' = fw \o FormatterCall(ff, fes[fi]).w
    /\ fi' = fi + 1
    /\ UNCHANGED <<fval, fes, fstatus, cvars, pvars>>

EndObjectValue ==
    /\ NextCall({"end_object_value"})
    /\ ff' = FormatterCall(ff, fes[fi]).f
    /\ fw' = fw \o FormatterCall(ff, fes[fi]).w
    /\ fi' = fi + 1
    /\ UNCHANGED <<fval, fes, fstatus, cvars, pvars>>

\* the serializer gives up (a map key that is not a string): no further call
SerializeFails ==
    /\ NextCall({"error"})
    /\ fstatus' = "failed"
    /\ UNCHANGED <<fval, fes, fi, ff, fw, cvars, pvars>>

FmtNext ==
    \/ WriteScalar
    \/ WriteStringPart
    \/ BeginArray
    \/ EndArray
    \/ BeginArrayValue
    \/ EndArrayValue
    \/ BeginObject
    \/ EndObject
    \/ BeginObjectKey
    \/ EndObjectKey
    \/ BeginObjectValue
    \/ EndObjectValue
    \/ SerializeFails

-----------------------------------------------------------------------------
(* The pipeline: a Source read by read(), each Value handed to write() of  *)
(* a Sink, and the release of the Sink.                                    *)

SeqsUpTo(S, n) == UNION {[1..k -> S] : k \in 0..n}

\* the documents of a JSON stream: what the deserializer builds from JSON text
JsonDocs ==
    {VUnit, VU64(U64_MAX), VSequence(<<VUnit, VU64(U64_MAX)>>),
     VSequence(<<VBool(TRUE), VString("a,b")>>),
     VMap(<<<<VString("k"), VSequence(<<>>)>>>>)}

\* a JSON stream: documents, a malformed token, and input that ends inside a
\* value (which can only be the last thing in the stream)
JsonInputs ==
    {i \in SeqsUpTo({<<"doc", v>> : v \in JsonDocs} \cup {<<"bad", "]">>, <<"trunc", "{">>}, MaxLen) :
        \A k \in 1..Len(i) : i[k][1] = "trunc" => k = Len(i)}

AvroItems ==
    {ANull, AUnion(ALong(<<0, 0, 0, 7>>)), ADate(<<0, 1>>),
     AArray(<<AString("a"), ADecimal(<<1>>)>>),
     ARecord(<<<<"f", AString("a")>>>>)}

\* an Avro container: decoded items and a block that does not decode
AvroInputs == SeqsUpTo({<<"item", a>> : a \in AvroItems} \cup {<<"corrupt", "">>}, MaxLen)

NoValue == <<"NoValue">>
SomeValue(v) == <<"Some", v>>

NoneItem == <<"None">>
SomeOk(x) == <<"Some", <<"Ok", x>>>>
SomeErr(kind) == <<"Some", <<"Err", kind, "", "">>>>

\* serde_json::StreamDeserializer::next over an IoRead, and avro_rs::Reader::next:
\* None once the reader has failed; None at the end of the input; the next
\* document; or an error, after which the reader is marked failed.  Input that
\* ends inside a value is consumed to its end.
ReaderNext(inp, p, failed, errKind) ==
    IF failed THEN [item |-> NoneItem, pos |-> p, failed |-> TRUE]
    ELSE IF p > Len(inp) THEN [item |-> NoneItem, pos |-> p, failed |-> FALSE]
    ELSE IF inp[p][1] \in {"doc", "item"}
         THEN [item |-> SomeOk(inp[p][2]), pos |-> p + 1, failed |-> FALSE]
    ELSE [item |-> SomeErr(errKind),
          pos |-> IF inp[p][1] = "trunc" THEN p + 1 ELSE p,
          failed |-> TRUE]

OkNone == <<"OkNone">>
OkSome(v) == <<"OkSome", v>>

\* json.rs:96: Some(Err(e)) => Err(error::Error::from(e))
\* (mutant) an error of the reader reported as the end of the stream
JsonErrResult_as_eof(e) == OkNone
JsonErrResult(e) == <<"Err", "Json", "", "">>

\* (mutant) a null document taken for the absence of a document
JsonReadResult_null_is_none(item) ==
    IF item = NoneItem \/ item = SomeOk(VUnit) THEN OkNone
    ELSE IF IsOk(item[2]) THEN OkSome(Unwrap(item[2]))
    ELSE JsonErrResult(item[2])
\* json.rs:93-99: Source::read
JsonReadResult(item) ==
    IF item = NoneItem THEN OkNone
    ELSE IF IsOk(item[2]) THEN OkSome(Unwrap(item[2]))
    ELSE JsonErrResult(item[2])

\* avro.rs:37-43: Source::read
AvroReadResult(item) ==
    IF item = NoneItem THEN OkNone
    ELSE IF IsOk(item[2])
         THEN LET v == value_from_avro(Unwrap(item[2]))
              IN IF IsPanic(v) THEN Panic ELSE OkSome(v)
    ELSE <<"Err", "Avro", "", "">>

\* json::Source::read
JsonSourceRead ==
    /\ pstate = "running"
    /\ srcKind = "json"
    /\ cur = NoValue
    /\ Len(hist) < MaxReads
    /\ LET n == ReaderNext(input, pos, srcFailed, "Json")
           r == JsonReadResult(n.item)
       IN /\ pos' = n.pos
          /\ srcFailed' = n.failed
          /\ hist' = Append(hist, [res |-> r, at |-> pos])
          /\ cur' = IF r[1] = "OkSome" THEN SomeValue(r[2]) ELSE NoValue
    /\ UNCHANGED <<srcKind, input, sinkKind, sfmt, out, wbuf, wout, sstate, wlog, flushes,
                   pstate, cvars, fvars>>

\* avro::Source::read
AvroSourceRead ==
    /\ pstate = "running"
    /\ srcKind = "avro"
    /\ cur = NoValue
    /\ Len(hist) < MaxReads
    /\ LET n == ReaderNext(input, pos, srcFailed, "Avro")
           r == AvroReadResult(n.item)
       IN /\ pos' = n.pos
          /\ srcFailed' = n.failed
          /\ hist' = Append(hist, [res |-> r, at |-> pos])
          /\ cur' = IF r[1] = "OkSome" THEN SomeValue(r[2]) ELSE NoValue
          /\ pstate' = IF IsPanic(r) THEN "unwinding" ELSE "running"
    /\ UNCHANGED <<srcKind, input, sinkKind, sfmt, out, wbuf, wout, sstate, wlog, flushes,
                   cvars, fvars>>

JsonSinkKinds == {"compact", "indented", "readable"}

\* json.rs:110-112: the record serialized through a clone of the Sink's formatter
JsonRecord(f, v) == RunFormatter(f, SerEvents(v)).w

\* (mutant) the record without the newline after it
JsonWriteChunks_no_newline(f, v) == JsonRecord(f, v)
\* json.rs:108-116: everything Sink::write hands to the writer when nothing
\* fails; a serializer error returns before the newline
JsonWriteChunks(f, v) ==
    JsonRecord(f, v) \o (IF HasError(SerEvents(v)) THEN <<>> ELSE <<NL>>)

\* the numbers of chunks after which the writer may fail: at once, a third of
\* the way, at the last chunk, or never
FailPoints(n) == {0, n \div 3, n - 1, n} \cap 0..n

\* the formatter of the serializer when the writer has taken k chunks of the
\* record and fails at the next one (a callback updates its fields before it
\* writes), or when the record is complete
RECURSIVE RunUntil(_, _, _, _)
RunUntil(st, es, i, k) ==
    IF i > Len(es) \/ es[i][1] = "error" \/ IndentUnderflow(st.f) \/ Len(st.w) > k THEN st
    ELSE LET one == FormatterCall(st.f, es[i])
         IN RunUntil(Step(one.f, st.w \o one.w), es, i + 1, k)

ReachedAt(f, v, k) == RunUntil(Step(f, <<>>), SerEvents(v), 1, k).f

\* (mutant) the serializer works on the Sink's own formatter, not on a clone
FormatterAfterWrite_shared(own, reached) == reached
\* json.rs:111: self.1.clone(): the Sink's formatter is left as it was
FormatterAfterWrite(own, reached) == own

\* json::Sink::write
JsonSinkWrite ==
    /\ pstate = "running"
    /\ sstate = "open"
    /\ sinkKind \in JsonSinkKinds
    /\ cur # NoValue
    /\ LET v == cur[2]
           chunks == JsonWriteChunks(sfmt, v)
       IN \E k \in FailPoints(Len(chunks)) :
            /\ out' = out \o SubSeq(chunks, 1, k)
            /\ sfmt' = FormatterAfterWrite(sfmt, ReachedAt(sfmt, v, k))
            /\ wlog' = Append(wlog, [v |-> v,
                                     res |-> IF k = Len(chunks) /\ ~HasError(SerEvents(v))
                                             THEN "Ok" ELSE "Err",
                                     start |-> sfmt,
                                     reached |-> ReachedAt(sfmt, v, k),
                                     held |-> <<>>])
    /\ cur' = NoValue
    /\ UNCHANGED <<srcKind, input, pos, srcFailed, hist, sinkKind, wbuf, wout, sstate,
                   flushes, pstate, cvars, fvars>>

\* avro_rs::Writer::append: the value is checked against the schema and encoded
\* into the block buffer; a full block is flushed to the underlying writer
AppendOutcomes == {"invalid", "buffered", "flushed", "flush_failed"}
WriterAppend(buf, wr, rec, outcome) ==
    CASE outcome = "invalid" -> [buf |-> buf, wr |-> wr, res |-> <<"Err", "Avro", "", "">>]
      [] outcome = "buffered" -> [buf |-> Append(buf, rec), wr |-> wr, res |-> Ok(0)]
      [] outcome = "flushed" -> [buf |-> <<>>, wr |-> wr \o Append(buf, rec), res |-> Ok(1)]
      [] outcome = "flush_failed" ->
           [buf |-> Append(buf, rec), wr |-> wr, res |-> <<"Err", "Avro", "", "">>]

\* avro_rs::Writer::flush: nothing to do for an empty buffer; else the block is
\* written through, which may fail
FlushOutcomes(buf) == IF buf = <<>> THEN {"empty"} ELSE {"flushed", "flush_failed"}
WriterFlush(buf, wr, outcome) ==
    CASE outcome = "empty" -> [buf |-> buf, wr |-> wr, res |-> Ok(0)]
      [] outcome = "flushed" -> [buf |-> <<>>, wr |-> wr \o buf, res |-> Ok(1)]
      [] outcome = "flush_failed" -> [buf |-> buf, wr |-> wr, res |-> <<"Err", "Avro", "", "">>]

\* (mutant) a value that does not convert is skipped and the write reports Ok
AvroWriteResult_swallow(conv, app) == IF IsOk(conv) /\ ~IsOk(app) THEN "Err" ELSE "Ok"
\* avro.rs:87-90: self.0.append(value_to_avro(value)?)?; Ok(())
AvroWriteResult(conv, app) == IF IsOk(conv) /\ IsOk(app) THEN "Ok" ELSE "Err"

\* (mutant) a value that does not convert is replaced by a null record
RecordsToAppend_placeholder(conv) == IF IsOk(conv) THEN <<Unwrap(conv)>> ELSE <<ANull>>
\* avro.rs:88: value_to_avro(value)?: what reaches append
RecordsToAppend(conv) == IF IsOk(conv) THEN <<Unwrap(conv)>> ELSE <<>>

\* avro::Sink::write
AvroSinkWrite ==
    /\ pstate = "running"
    /\ sstate = "open"
    /\ sinkKind = "avro"
    /\ cur # NoValue
    /\ LET v == cur[2]
           conv == value_to_avro(v)
           recs == RecordsToAppend(conv)
       IN IF recs = <<>>
          THEN /\ wlog' = Append(wlog, [v |-> v, res |-> AvroWriteResult(conv, NoResult),
                                        start |-> sfmt, reached |-> sfmt,
                                        held |-> wout \o wbuf])
               /\ UNCHANGED <<wbuf, wout>>
          ELSE \E o \in AppendOutcomes :
                 LET a == WriterAppend(wbuf, wout, recs[1], o)
                 IN /\ wbuf' = a.buf
                    /\ wout' = a.wr
                    /\ wlog' = Append(wlog, [v |-> v, res |-> AvroWriteResult(conv, a.res),
                                             start |-> sfmt, reached |-> sfmt,
                                             held |-> a.wr \o a.buf])
    /\ cur' = NoValue
    /\ UNCHANGED <<srcKind, input, pos, srcFailed, hist, sinkKind, sfmt, out, sstate,
                   flushes, pstate, cvars, fvars>>

\* (mutant) the result of the flush is dropped: `let _ = self.0.flush();`
DropResult_ignored(flush) == "released"
\* avro.rs:176-181: Drop::drop: Ok(_) => (), Err(error) => panic!
DropResult(flush) == IF IsOk(flush) THEN "released" ELSE "panicked"

\* what becomes of the thread when the release of the Sink ends in state s: a
\* panic starts unwinding; a panic while unwinding aborts the process
AfterDrop(ps, s) ==
    IF s = "panicked" THEN (IF ps = "unwinding" THEN "aborted" ELSE "unwinding")
    ELSE IF ps = "unwinding" THEN "panicked" ELSE ps

\* the Avro Sink is released: by its owner, or by the unwinding of a panic
AvroSinkDrop ==
    /\ pstate \in {"running", "unwinding"}
    /\ sstate = "open"
    /\ sinkKind = "avro"
    /\ \E o \in FlushOutcomes(wbuf) :
         LET fl == WriterFlush(wbuf, wout, o)
         IN /\ wbuf' = fl.buf
            /\ wout' = fl.wr
            /\ sstate' = DropResult(fl.res)
            /\ pstate' = AfterDrop(pstate, DropResult(fl.res))
    /\ flushes' = flushes + 1
    /\ UNCHANGED <<srcKind, input, pos, srcFailed, hist, cur, sinkKind, sfmt, out, wlog, cvars, fvars>>

\* a JSON Sink is released: it has no Drop, its writer and formatter are dropped
JsonSinkDrop ==
    /\ pstate \in {"running", "unwinding"}
    /\ sstate = "open"
    /\ sinkKind \in JsonSinkKinds
    /\ sstate' = "released"
    /\ pstate' = AfterDrop(pstate, "released")
    /\ UNCHANGED <<srcKind, input, pos, srcFailed, hist, cur, sinkKind, sfmt, out, wbuf, wout,
                   wlog, flushes, cvars, fvars>>

\* json.rs:57-86, avro.rs:17-30: source(r), sink_compact / sink_readable /
\* sink_indented(w), sink(schema, w, codec)
PipeInit ==
    /\ srcKind \in {"json", "avro"}
    /\ input \in IF srcKind = "json" THEN JsonInputs ELSE AvroInputs
    /\ pos = 1
    /\ srcFailed = FALSE
    /\ hist = <<>>
    /\ cur = NoValue
    /\ sinkKind \in {"avro"} \cup JsonSinkKinds
    /\ sfmt = NewFormatter(IF sinkKind = "avro" THEN "none" ELSE sinkKind)
    /\ out = <<>>
    /\ wbuf = <<>>
    /\ wout = <<>>
    /\ sstate = "open"
    /\ wlog = <<>>
    /\ flushes = 0
    /\ pstate = "running"

PipeIdle ==
    /\ srcKind = "none"
    /\ input = <<>>
    /\ pos = 1
    /\ srcFailed = FALSE
    /\ hist = <<>>
    /\ cur = NoValue
    /\ sinkKind = "none"
    /\ sfmt = NewFormatter("none")
    /\ out = <<>>
    /\ wbuf = <<>>
    /\ wout = <<>>
    /\ sstate = "released"
    /\ wlog = <<>>
    /\ flushes = 0
    /\ pstate = "idle"

Init == PipeInit /\ ConvIdle /\ FmtIdle

Next ==
    \/ JsonSourceRead
    \/ AvroSourceRead
    \/ JsonSinkWrite
    \/ AvroSinkWrite
    \/ AvroSinkDrop
    \/ JsonSinkDrop

Spec == Init /\ [][Next]_vars

ConvNext == Encode \/ DecodeBack \/ Decode

InitConv ==
    /\ cin \in {<<"val", v>> : v \in ConvVals} \cup {<<"avro", a>> : a \in ConvAvros}
    /\ cout = NoResult
    /\ cback = NoResult
    /\ cpc = "start"
    /\ PipeIdle
    /\ FmtIdle

SpecConv == InitConv /\ [][ConvNext]_vars

\* json.rs:73-78, 110-112: sink_readable's formatter, cloned for one record
InitFmt ==
    /\ fval \in FmtVals
    /\ fes = SerEvents(fval)
    /\ fi = 1
    /\ ff = NewFormatter("readable")
    /\ fw = <<>>
    /\ fstatus = "walking"
    /\ ConvIdle
    /\ PipeIdle

SpecFmt == InitFmt /\ [][FmtNext]_vars

-----------------------------------------------------------------------------
(* Claims about the conversions (specification SpecConv).                  *)

EncodedU64 == cin[1] = "val" /\ Tag(cin[2]) = "U64" /\ cpc \in {"encoded", "done"}

\* C3: value_to_avro of U64(v) is a Format error exactly when v > i64::MAX;
\* otherwise it is Long(v) with the same number, which value_from_avro decodes
\* as I64(v).  U64(u64::MAX) fails, U64(42) comes back as I64(42).
C3_U64Checked ==
    EncodedU64 =>
        LET p == Payload(cin[2])
        IN /\ ExceedsI64Max(p) <=> (IsErr(cout) /\ cout[2] = "Format")
           /\ ~ExceedsI64Max(p) =>
                 /\ IsOk(cout)
                 /\ Tag(Unwrap(cout)) = "avro:Long"
                 /\ SignedNum(Payload(Unwrap(cout))) = UnsignedNum(p)
                 /\ cpc = "done" =>
                       /\ Tag(cback) = "I64"
                       /\ SignedNum(Payload(cback)) = UnsignedNum(p)
           /\ p = U64_MAX => IsErr(cout)
           /\ (p = <<0, 0, 0, 42>> /\ cpc = "done") => cback = VI64(<<0, 0, 0, 42>>)

C3_Witness ==
    /\ EncodedU64
    /\ Payload(cin[2]) = U64_MAX
    /\ IsErr(cout)

IsStringKey(k) == Tag(k) \in {"Char", "String"}
BadKeys(m) == {Payload(m)[i][1] : i \in {j \in 1..Len(Payload(m)) : ~IsStringKey(Payload(m)[j][1])}}
EncodedMap == cin[1] = "val" /\ Tag(cin[2]) = "Map" /\ cpc \in {"encoded", "done"}

\* the first pair of the map, in order, whose key or value does not convert
FirstFailing(m) ==
    LET kvs == Payload(m)
        bad == {i \in 1..Len(kvs) :
                   ~IsOk(value_to_string(kvs[i][1])) \/ ~IsOk(value_to_avro(kvs[i][2]))}
    IN IF bad = {} THEN 0 ELSE CHOOSE i \in bad : \A j \in bad : i <= j

\* C4: value_to_avro of a Map that has a key which is neither Char nor String is a
\* Format error, and when the first pair that fails has such a key the message
\* names that key, whatever the value paired with it is (also a value that itself
\* cannot be encoded); a map is accepted only if all its keys are Char or String.
C4_KeyErrorNamesKey ==
    EncodedMap =>
        /\ BadKeys(cin[2]) # {} => (IsErr(cout) /\ cout[2] = "Format")
        /\ IsOk(cout) => BadKeys(cin[2]) = {}
        /\ LET i == FirstFailing(cin[2])
           IN (i > 0 /\ ~IsStringKey(Payload(cin[2])[i][1])) =>
                  cout = FormatError("Avro can only output string keys", Payload(cin[2])[i][1])

RECURSIVE IsExact(_)
IsExact(v) ==
    \/ Tag(v) \in {"Unit", "Bool", "I32", "I64", "F32", "F64", "String", "Bytes"}
    \/ /\ Tag(v) = "Sequence"
       /\ \A i \in 1..Len(Payload(v)) : IsExact(Payload(v)[i])

\* C9: for a Value of a variant Avro represents exactly (Unit, Bool, I32, I64,
\* F32, F64, String, Bytes) and for Sequences of such values, value_to_avro
\* succeeds and value_from_avro of the result is the Value itself.
C9_ExactRoundTrip ==
    (cin[1] = "val" /\ IsExact(cin[2])) =>
        /\ cpc \in {"encoded", "done"} => IsOk(cout)
        /\ cpc = "done" => cback = cin[2]

C9_Witness ==
    /\ cpc = "done"
    /\ cin = <<"val", VSequence(<<VBool(TRUE), VI64(<<0, 0, 0, 7>>)>>)>>
    /\ cback = cin[2]

RECURSIVE StripUnions(_)
StripFields(kvs) == [i \in 1..Len(kvs) |-> <<kvs[i][1], StripUnions(kvs[i][2])>>]
StripUnions(a) ==
    CASE Tag(a) = "avro:Union" -> StripUnions(Payload(a))
      [] Tag(a) = "avro:Array" -> AArray([i \in 1..Len(Payload(a)) |-> StripUnions(Payload(a)[i])])
      [] Tag(a) = "avro:Map" -> AMap(StripFields(Payload(a)))
      [] Tag(a) = "avro:Record" -> ARecord(StripFields(Payload(a)))
      [] OTHER -> a

\* C10: value_from_avro of a Union is the decoding of its inner value, at any
\* depth of Union wrappers: the result is that of the same Avro value with all
\* Union wrappers removed, and Union(Long(7)) gives I64(7).
C10_UnionUnwrapped ==
    (cin[1] = "avro" /\ cpc = "decoded") =>
        /\ cout = value_from_avro(StripUnions(cin[2]))
        /\ cin[2] \in {AUnion(ALong(<<0, 0, 0, 7>>)), AUnion(AUnion(ALong(<<0, 0, 0, 7>>)))}
              => cout = VI64(<<0, 0, 0, 7>>)

C10_Witness ==
    /\ cpc = "decoded"
    /\ cin = <<"avro", AUnion(AUnion(ALong(<<0, 0, 0, 7>>)))>>
    /\ cout = VI64(<<0, 0, 0, 7>>)

\* the number an Avro Int or Long holds
AvroNum(a) == IntNum(IF Tag(a) = "avro:Int" THEN "I32" ELSE "I64", Payload(a))

\* C12: encoding an integer Value other than U64 to Avro never fails and keeps
\* the number: I8, I16, I32, U8, U16 become Int and I64, U32 become Long, each
\* holding the number the input holds.
C12_IntegersWidened ==
    (/\ cin[1] = "val"
     /\ Tag(cin[2]) \in IntTags \ {"U64"}
     /\ cpc \in {"encoded", "done"}) =>
        /\ IsOk(cout)
        /\ Tag(Unwrap(cout)) = (IF Tag(cin[2]) \in {"I64", "U32"} THEN "avro:Long" ELSE "avro:Int")
        /\ AvroNum(Unwrap(cout)) = IntNum(Tag(cin[2]), Payload(cin[2]))

C12_Witness ==
    /\ cpc = "encoded"
    /\ cin = <<"val", VI8(128)>>
    /\ cout = Ok(AInt(<<LimbMax, LimbMax - 127>>))

\* C13: encoding a Sequence succeeds exactly when every element encodes, and
\* then gives the Array of the elements' encodings in order; otherwise the
\* result is the error of the first element that does not encode.
C13_SequenceFirstError ==
    (/\ cin[1] = "val"
     /\ Tag(cin[2]) = "Sequence"
     /\ cpc \in {"encoded", "done"}) =>
        LET v == Payload(cin[2])
            rs == [i \in 1..Len(v) |-> value_to_avro(v[i])]
            bad == {i \in 1..Len(v) : ~IsOk(rs[i])}
        IN IF bad = {}
           THEN cout = Ok(AArray([i \in 1..Len(v) |-> Unwrap(rs[i])]))
           ELSE /\ IsErr(cout)
                /\ cout = rs[CHOOSE i \in bad : \A j \in bad : i <= j]

C13_Witness ==
    /\ cpc = "encoded"
    /\ cin = <<"val", VSequence(<<VBool(TRUE), VU64(I64_MIN), VString("a"), VU64(U64_MAX)>>)>>
    /\ cout = FormatError("Avro output does not support unsigned 64 bit integer", VU64(I64_MIN))

\* C18: decoding a Record gives a Map with one (String(field name), decoded
\* value) pair per field in field order; encoding a Map whose keys are all Char
\* or String gives a Record with one field per pair in the pairs' order,
\* duplicate keys kept.
C18_EntryOrderKept ==
    /\ (/\ cin[1] = "avro"
        /\ Tag(cin[2]) = "avro:Record"
        /\ cpc = "decoded"
        /\ ~IsPanic(cout)) =>
           LET fs == Payload(cin[2])
           IN /\ Tag(cout) = "Map"
              /\ Len(Payload(cout)) = Len(fs)
              /\ \A i \in 1..Len(fs) :
                    Payload(cout)[i] = <<VString(fs[i][1]), value_from_avro(fs[i][2])>>
    /\ (/\ cin[1] = "val"
        /\ Tag(cin[2]) = "Map"
        /\ cpc \in {"encoded", "done"}
        /\ IsOk(cout)) =>
           LET ps == Payload(cin[2])
               fs == Payload(Unwrap(cout))
           IN /\ Tag(Unwrap(cout)) = "avro:Record"
              /\ Len(fs) = Len(ps)
              /\ \A i \in 1..Len(ps) :
                    /\ fs[i][1] = Payload(ps[i][1])
                    /\ Ok(fs[i][2]) = value_to_avro(ps[i][2])
    /\ (/\ cin[1] = "val"
        /\ Tag(cin[2]) = "Map"
        /\ cpc \in {"encoded", "done"}
        /\ \A i \in 1..Len(Payload(cin[2])) :
              /\ IsStringKey(Payload(cin[2])[i][1])
              /\ IsOk(value_to_avro(Payload(cin[2])[i][2]))) => IsOk(cout)

C18_Witness ==
    /\ cpc = "encoded"
    /\ cin = <<"val", VMap(<<<<VString("a"), VBool(TRUE)>>, <<VString("a"), VUnit>>>>)>>
    /\ cout = Ok(ARecord(<<<<"a", ABoolean(TRUE)>>, <<"a", ANull>>>>))

-----------------------------------------------------------------------------
(* Claims about the pipeline (specification Spec).                         *)

\* C1: once read() has returned Ok(None), every later read() of the same Source
\* (JSON or Avro) returns Ok(None): never a value, never an error.
C1_EndOfStreamSticks ==
    \A i, j \in 1..Len(hist) :
        (i < j /\ hist[i].res = OkNone) => hist[j].res = OkNone

C1_Witness ==
    /\ Len(hist) >= 4
    /\ hist[1].res[1] = "OkSome"
    /\ hist[2].res = OkNone
    /\ hist[4].res = OkNone

\* the Values the read() calls have returned, in order
RECURSIVE DecodedOf(_)
DecodedOf(h) ==
    IF h = <<>> THEN <<>>
    ELSE (IF Head(h).res[1] = "OkSome" THEN <<Head(h).res[2]>> ELSE <<>>) \o DecodedOf(Tail(h))

\* o is what the write() calls of log leave in a JSON writer: the whole line of
\* each call that returned Ok, and a part of the line of each that returned Err
RECURSIVE JsonMatches(_, _, _)
JsonMatches(o, log, kind) ==
    IF log = <<>> THEN o = <<>>
    ELSE LET line == JsonRecord(NewFormatter(kind), Head(log).v) \o <<NL>>
             n == Len(line)
         IN IF Head(log).res = "Ok"
            THEN /\ Len(o) >= n
                 /\ SubSeq(o, 1, n) = line
                 /\ JsonMatches(SubSeq(o, n + 1, Len(o)), Tail(log), kind)
            ELSE \E k \in 0..(n - 1) :
                    /\ Len(o) >= k
                    /\ SubSeq(o, 1, k) = SubSeq(line, 1, k)
                    /\ JsonMatches(SubSeq(o, k + 1, Len(o)), Tail(log), kind)

\* h is what the write() calls of log leave in an Avro writer: the record of each
\* call that returned Ok, in order, and possibly the record of a call that
\* returned Err after the record was buffered
RECURSIVE AvroMatches(_, _)
AvroMatches(h, log) ==
    IF log = <<>> THEN h = <<>>
    ELSE LET c == value_to_avro(Head(log).v)
             taken == /\ IsOk(c)
                      /\ h # <<>>
                      /\ Head(h) = Unwrap(c)
                      /\ AvroMatches(Tail(h), Tail(log))
         IN IF Head(log).res = "Ok" THEN taken
            ELSE taken \/ AvroMatches(h, Tail(log))

\* C2: the records the writer has been handed are the decoded records in the
\* order they were decoded: the i-th write() was given the i-th decoded Value,
\* and the writer holds, in that order and once each, the record of every
\* write() that returned Ok; a record is absent only if its write() returned Err.
C2_StreamOrder ==
    /\ Len(wlog) <= Len(DecodedOf(hist))
    /\ \A i \in 1..Len(wlog) : wlog[i].v = DecodedOf(hist)[i]
    /\ sinkKind = "avro" => AvroMatches(wout \o wbuf, wlog)
    /\ sinkKind \in JsonSinkKinds => JsonMatches(out, wlog, sinkKind)

C2_Witness ==
    /\ Len(wlog) = 2
    /\ wlog[1].res = "Err"
    /\ wlog[2].res = "Ok"
    /\ sinkKind = "avro"
    /\ Len(wout \o wbuf) = 1

RECURSIVE ContainsUnsupported(_)
ContainsUnsupported(a) ==
    CASE Tag(a) \in {"avro:Date", "avro:Decimal"} -> TRUE
      [] Tag(a) = "avro:Union" -> ContainsUnsupported(Payload(a))
      [] Tag(a) = "avro:Array" ->
           \E i \in 1..Len(Payload(a)) : ContainsUnsupported(Payload(a)[i])
      [] Tag(a) \in {"avro:Map", "avro:Record"} ->
           \E i \in 1..Len(Payload(a)) : ContainsUnsupported(Payload(a)[i][2])
      [] OTHER -> FALSE

\* C5: Avro decoding never aborts: every read() of an Avro Source returns
\* Ok(Some(_)), Ok(None) or Err, and for an item that is or contains a Date or a
\* Decimal it returns an Unimplemented error.
C5_DecodingTotal ==
    srcKind = "avro" =>
        \A i \in 1..Len(hist) :
            /\ hist[i].res[1] \in {"OkSome", "OkNone", "Err"}
            /\ (/\ hist[i].at <= Len(input)
                /\ input[hist[i].at][1] = "item"
                /\ ContainsUnsupported(input[hist[i].at][2])
                /\ \A j \in 1..(i - 1) : hist[j].res[1] # "Err")
               => (hist[i].res[1] = "Err" /\ hist[i].res[2] = "Unimplemented")

\* C6: the release of an Avro Sink never panics and never aborts the process,
\* also when the flush fails and when the release happens while unwinding.
C6_ReleaseNeverPanics ==
    sinkKind = "avro" => (sstate # "panicked" /\ pstate # "aborted")

RECURSIVE Lines(_, _)
Lines(log, kind) ==
    IF log = <<>> THEN <<>>
    ELSE JsonRecord(NewFormatter(kind), Head(log).v) \o <<NL>> \o Lines(Tail(log), kind)

\* C7: after n successful write() calls on a JSON Sink (compact, indented or
\* readable) the output is the n record encodings, each followed by exactly one
\* newline: an encoding is not empty and neither starts nor ends with a newline.
C7_OneNewlinePerRecord ==
    (sinkKind \in JsonSinkKinds /\ \A i \in 1..Len(wlog) : wlog[i].res = "Ok") =>
        /\ out = Lines(wlog, sinkKind)
        /\ \A i \in 1..Len(wlog) :
              LET rec == JsonRecord(NewFormatter(sinkKind), wlog[i].v)
              IN /\ rec # <<>>
                 /\ rec[1] # NL
                 /\ rec[Len(rec)] # NL

C7_Witness ==
    /\ sinkKind = "readable"
    /\ Len(wlog) = 2
    /\ \A i \in 1..2 : wlog[i].res = "Ok"
    /\ wlog[1].v = VSequence(<<VBool(TRUE), VString("a,b")>>)

\* what read() must return for the input left at position p
ExpectedRead(r, p) ==
    IF p > Len(input) THEN r = OkNone
    ELSE IF input[p][1] = "doc" THEN r = OkSome(input[p][2])
    ELSE r[1] = "Err"

\* C8 as stated: every read() of a JSON Source, also one made after a read()
\* that returned Err, returns Err when the input left is malformed or ends
\* inside a value, and Ok(None) only when no input is left.
C8_NoEndOfStreamOnBadInput ==
    srcKind = "json" => \A i \in 1..Len(hist) : ExpectedRead(hist[i].res, hist[i].at)

\* C8 amended: the same for every read() up to and including the first that
\* returns Err.
C8_UntilFirstError ==
    srcKind = "json" =>
        \A i \in 1..Len(hist) :
            (\A j \in 1..(i - 1) : hist[j].res[1] # "Err") => ExpectedRead(hist[i].res, hist[i].at)

C8_Witness ==
    /\ srcKind = "json"
    /\ Len(hist) = 2
    /\ hist[1].res[1] = "OkSome"
    /\ hist[2].at <= Len(input)
    /\ input[hist[2].at][1] = "trunc"
    /\ hist[2].res[1] = "Err"

\* the records of the write() calls that returned Ok, in order
RECURSIVE OkRecords(_)
OkRecords(log) ==
    IF log = <<>> THEN <<>>
    ELSE (IF Head(log).res = "Ok" THEN <<Unwrap(value_to_avro(Head(log).v))>> ELSE <<>>)
         \o OkRecords(Tail(log))

\* s is t with some elements left out
RECURSIVE IsSubSeq(_, _)
IsSubSeq(s, t) ==
    IF s = <<>> THEN TRUE
    ELSE IF t = <<>> THEN FALSE
    ELSE IF Head(s) = Head(t) THEN IsSubSeq(Tail(s), Tail(t))
    ELSE IsSubSeq(s, Tail(t))

\* C17: the release of an Avro Sink calls flush() on the writer exactly once,
\* whatever writes came before (none, successful ones, one that returned Err);
\* until then the record of every write() that returned Ok is held by the
\* writer, and when the release has completed all of them are written through.
C17_FlushedOnceOnRelease ==
    sinkKind = "avro" =>
        /\ flushes = (IF sstate = "open" THEN 0 ELSE 1)
        /\ IsSubSeq(OkRecords(wlog), wout \o wbuf)
        /\ sstate = "released" => (wbuf = <<>> /\ IsSubSeq(OkRecords(wlog), wout))

C17_Witness ==
    /\ sinkKind = "avro"
    /\ sstate = "released"
    /\ flushes = 1
    /\ Len(wlog) = 2
    /\ wlog[1].res = "Ok"
    /\ wlog[2].res = "Err"
    /\ wout = OkRecords(wlog)

\* C19: every write() on the readable sink starts from the formatter's initial
\* state (current_indent 0, is_in_object_key false, has_value false), also after
\* a write that failed inside a nested container or an object key: the Sink's
\* formatter is never the one a serializer has worked on.
C19_FreshFormatterPerWrite ==
    sinkKind = "readable" =>
        /\ sfmt = NewFormatter("readable")
        /\ \A i \in 1..Len(wlog) :
              /\ wlog[i].start.current_indent = 0
              /\ wlog[i].start.is_in_object_key = FALSE
              /\ wlog[i].start.has_value = FALSE

C19_Witness ==
    /\ sinkKind = "readable"
    /\ Len(wlog) = 2
    /\ wlog[1].res = "Err"
    /\ wlog[1].reached.current_indent = 1
    /\ wlog[1].reached.is_in_object_key
    /\ wlog[2].res = "Ok"
    /\ wlog[2].reached.has_value

\* what the Avro writer held when write() number i was called
HeldBefore(i) == IF i = 1 THEN <<>> ELSE wlog[i - 1].held

-----------------------------------------------------------------------------
(* Claims about the readable formatter (specification SpecFmt).            *)

\* the serializer has made its last call for the record
FmtDone == fstatus = "walking" /\ fi > Len(fes)

IsToken(c) == c[2] # "ws"
\* a chunk without its styling and without insignificant whitespace
Bare(c) == <<c[2], IF c[2] = "punct" /\ c[3] = ": " THEN ":" ELSE c[3]>>
\* the chunks with styling and whitespace removed
Strip(w) == LET t == SelectSeq(w, IsToken) IN [i \in 1..Len(t) |-> Bare(t[i])]
\* the same, the text of a floating-point scalar left out
StripFloatText(w) ==
    LET t == Strip(w) IN [i \in 1..Len(t) |-> IF t[i][1] = "float" THEN <<"float", "">> ELSE t[i]]

\* C11 as stated: for every Value both sinks encode without error, the readable
\* sink's output with styling and insignificant whitespace removed is the compact
\* sink's output: the same tokens, scalars included, in the same order.
C11_StrippedEqualsCompact ==
    FmtDone => Strip(fw) = Strip(JsonRecord(NewFormatter("compact"), fval))

\* C11 amended: the same tokens in the same order, except that the text of a
\* finite floating-point scalar may differ between the two sinks.
C11_SameTokensFloatTextAside ==
    FmtDone => StripFloatText(fw) = StripFloatText(JsonRecord(NewFormatter("compact"), fval))

C11_Witness ==
    /\ FmtDone
    /\ fval = VSequence(<<VBool(TRUE), VString("a,b")>>)
    /\ Len(Strip(fw)) = 7

IsOpener(c) == c[2] = "punct" /\ c[3] \in {"[", "{"}
IsCloser(c) == c[2] = "punct" /\ c[3] \in {"]", "}"}

\* the index of the last chunk before j that is not whitespace (0 if none)
PrevToken(w, j) ==
    LET ks == {k \in 1..(j - 1) : IsToken(w[k])}
    IN IF ks = {} THEN 0 ELSE CHOOSE k \in ks : \A l \in ks : l <= k

\* C14: in the readable output a closing bracket or brace follows its opening
\* token immediately when the container has no child, and follows a newline
\* (plus indentation) when the container has at least one child, at every
\* nesting depth and whatever siblings, children or parents have written.
C14_CloseOnNewLineIffChild ==
    ~HasError(fes) =>
        \A j \in 1..Len(fw) :
            IsCloser(fw[j]) =>
                LET k == PrevToken(fw, j)
                IN /\ k > 0
                   /\ IF IsOpener(fw[k]) THEN k = j - 1
                      ELSE k < j - 1 /\ fw[k + 1] = NL

C14_Witness ==
    /\ FmtDone
    /\ fval = VSequence(<<VSequence(<<VBool(TRUE), VSequence(<<>>)>>), VSequence(<<>>)>>)

\* the number of containers open after the first j chunks
OpenAt(w, j) ==
    Cardinality({k \in 1..j : IsOpener(w[k])}) - Cardinality({k \in 1..j : IsCloser(w[k])})

\* the number of indent units written right after chunk j
IndentRun(w, j) ==
    LET stops == {m \in (j + 1)..(Len(w) + 1) : m = Len(w) + 1 \/ w[m] # IndentUnit}
    IN (CHOOSE m \in stops : \A l \in stops : m <= l) - j - 1

\* the number of calls named in cbs among the first n calls
CallCount(es, n, cbs) == Cardinality({k \in 1..n : es[k][1] \in cbs})

\* C15: current_indent is the number of arrays and objects open, never below
\* zero and zero when the record is complete; every line is indented by two
\* spaces per open container, a closing bracket by one level less.
C15_IndentIsDepth ==
    (fstatus # "idle" /\ ~HasError(fes)) =>
        /\ ff.current_indent = CallCount(fes, fi - 1, {"begin_array", "begin_object"})
                                - CallCount(fes, fi - 1, {"end_array", "end_object"})
        /\ ff.current_indent >= 0
        /\ FmtDone => ff.current_indent = 0
        /\ \A j \in 1..Len(fw) :
              fw[j] = NL =>
                LET n == IndentRun(fw, j)
                    closes == j + n + 1 <= Len(fw) /\ IsCloser(fw[j + n + 1])
                IN n = OpenAt(fw, j) - (IF closes THEN 1 ELSE 0)

C15_Witness ==
    /\ fstatus = "walking"
    /\ ff.current_indent = 2
    /\ fi <= Len(fes)
    /\ fes[fi][1] = "begin_string"
    /\ Len(fw) > 2
    /\ fw[Len(fw) - 2] = NL
    /\ IndentRun(fw, Len(fw) - 2) = 2

RECURSIVE Concat(_)
Concat(ss) == IF ss = <<>> THEN <<>> ELSE Head(ss) \o Concat(Tail(ss))

Marks(n, b) == [i \in 1..n |-> b]

\* for each quote, fragment and escape of the record, in order: is it part of
\* an object key?
RECURSIVE KeyMarks(_)
KeyMarks(value) ==
    LET t == Tag(value)
        v == Payload(value)
    IN CASE t = "String" -> Marks(2 + Len(StrPieces(v)), FALSE)
         [] t = "Char" -> Marks(2 + Len(StrPieces(CharToString(v))), FALSE)
         [] t = "Sequence" -> Concat([i \in 1..Len(v) |-> KeyMarks(v[i])])
         [] t = "Map" ->
              Concat([i \in 1..Len(v) |->
                        Marks(IF Tag(v[i][1]) \in IntTags THEN 2
                              ELSE 2 + Len(StrPieces(Payload(v[i][1]))), TRUE)
                        \o KeyMarks(v[i][2])])
         [] OTHER -> <<>>

IsStringChunk(c) == c[2] \in {"quote", "frag", "esc"}
KeyPalette == {"object_key_quote_style", "object_key_char_style", "object_key_escape_style"}
ValuePalette == {"string_quote_style", "string_char_style", "string_escape_style"}

\* the same, read off the styles of the output
StyleMarks(w) ==
    LET t == SelectSeq(w, IsStringChunk) IN [i \in 1..Len(t) |-> t[i][1] \in KeyPalette]

\* is call n of es made between a begin_object_key and its end_object_key?
InsideKey(es, n) ==
    \E k \in 1..n :
        /\ es[k][1] = "begin_object_key"
        /\ \A l \in (k + 1)..n : es[l][1] # "end_object_key"

\* C16: is_in_object_key is true exactly between begin_object_key and its
\* end_object_key; every quote, fragment and escape of an object key is written
\* in the object-key palette and every one of a value, also of a value nested
\* in arrays or objects inside an object's value, in the value palette.
C16_KeyPaletteForKeysOnly ==
    (fstatus # "idle" /\ ~HasError(fes)) =>
        /\ ff.is_in_object_key = InsideKey(fes, fi - 1)
        /\ \A j \in 1..Len(fw) :
              IsStringChunk(fw[j]) => fw[j][1] \in KeyPalette \cup ValuePalette
        /\ LET got == StyleMarks(fw)
           IN /\ Len(got) <= Len(KeyMarks(fval))
              /\ got = SubSeq(KeyMarks(fval), 1, Len(got))
        /\ FmtDone => Len(StyleMarks(fw)) = Len(KeyMarks(fval))

C16_Witness ==
    /\ FmtDone
    /\ fval = VMap(<<<<VString("q\""), VSequence(<<VString("a,b")>>)>>, <<VChar("c"), VMap(<<>>)>>>>)
    /\ StyleMarks(fw) = <<TRUE, TRUE, TRUE, TRUE, FALSE, FALSE, FALSE, TRUE, TRUE, TRUE>>

====
